---- MODULE Spec2Model ----
(***************************************************************************)
(* opParams (src/common/op_params.py): a typed, file-backed parameter      *)
(* store.  One JSON file per key under PARAMS_DIR, an in-memory cache      *)
(* (self.params), a per-parameter last_read timestamp and the get/put API. *)
(*                                                                         *)
(* The registry, the construction sequence and get/put are translated from *)
(* the source.  The environment is bounded: one run works on one key       *)
(* (focus): the directory found at construction holds at most that key's   *)
(* file, the API is called with that key (or with no key), and the file of *)
(* that key is the one other processes change.  The loops of construction  *)
(* and of the bulk reload still run over every registered key.             *)
(***************************************************************************)
EXTENDS Integers, Sequences, FiniteSets, TLC

VARIABLES
  pc,               \* "new": no opParams object yet; "ready": __init__ returned
  now,              \* sec_since_boot(), in whole seconds
  focus,            \* the key this run works on
  dir_exists,       \* os.path.exists(PARAMS_DIR)
  files,            \* PARAMS_DIR/<key>: the text of the file, or NoFile
  imported,         \* os.path.exists(IMPORTED_PATH)
  old_params_file,  \* OLD_PARAMS_FILE: [kind, map]
  params,           \* self.params: dict key -> value
  last_read,        \* self.fork_params[key].last_read
  last,             \* the last call made and what it gave back
  import_failed,    \* history: a construction ran _import_params and it failed
  valid_call,       \* Param.is_valid alone: the Param, the value and the answer
  disk,             \* one key's file seen by several processes: name -> inode
  procs             \* those processes: where each is and what it holds

\* the variables the store leaves alone: they belong to the specifications
\* that follow Param.is_valid and the file of one key on their own
aside == <<valid_call, disk, procs>>

vars == <<pc, now, focus, dir_exists, files, imported, old_params_file,
          params, last_read, last, import_failed, valid_call, disk, procs>>

----------------------------------------------------------------------------
(* Bounds *)

\* the clock stops at MaxTime seconds since boot
MaxTime == 10

----------------------------------------------------------------------------
(* Python values: the runtime type and the payload.  A float is kept in    *)
(* tenths (0.9 is n = 9), an int as itself, a bool as 0/1.                 *)

PyValue(type, n, s) == [type |-> type, n |-> n, s |-> s]

None == PyValue("NoneType", 0, "")

True == PyValue("bool", 1, "")

False == PyValue("bool", 0, "")

PyInt(i) == PyValue("int", i, "")

PyFloat(tenths) == PyValue("float", tenths, "")

PyStr(s) == PyValue("str", 0, s)

EmptyList == PyValue("list", 0, "")

\* a list with its elements
PyList(elems) == [type |-> "list", n |-> Len(elems), s |-> "", elems |-> elems]

\* no value at all (nothing returned, no argument)
NoValue == PyValue("<none>", 0, "")

\* the values a caller passes to put and another process writes to a file
Values == {None, True, PyInt(30), PyFloat(12)}

NUMBER == <<"float", "int">>

NONE_OR_NUMBER == <<"NoneType", "float", "int">>

Range(seq) == {seq[i] : i \in 1..Len(seq)}

\* list.remove(x): drops the first occurrence
ListRemove(seq, x) ==
  LET i == CHOOSE j \in 1..Len(seq) : seq[j] = x /\ \A h \in 1..(j - 1) : seq[h] # x
  IN [j \in 1..(Len(seq) - 1) |-> IF j < i THEN seq[j] ELSE seq[j + 1]]

----------------------------------------------------------------------------
(* JSON texts, as the tokens json.dumps writes and json.loads reads *)

JsonText(tok, n, s) == [tok |-> tok, n |-> n, s |-> s]

\* a text json.loads rejects with JSONDecodeError
Malformed == JsonText("malformed", 0, "")

\* the file does not exist
NoFile == JsonText("<no file>", 0, "")

json_dumps(value) ==
  CASE value.type = "NoneType" -> JsonText("null", 0, "")
    [] value.type = "bool" -> JsonText(IF value.n = 1 THEN "true" ELSE "false", 0, "")
    [] value.type = "int" -> JsonText("integer", value.n, "")
    [] value.type = "float" -> JsonText("real", value.n, "")
    [] value.type = "str" -> JsonText("string", 0, value.s)
    [] value.type = "list" -> JsonText("array", 0, "")

\* [ok, value]: ok = FALSE stands for json.decoder.JSONDecodeError
json_loads(text) ==
  CASE text.tok = "null" -> [ok |-> TRUE, value |-> None]
    [] text.tok = "true" -> [ok |-> TRUE, value |-> True]
    [] text.tok = "false" -> [ok |-> TRUE, value |-> False]
    [] text.tok = "integer" -> [ok |-> TRUE, value |-> PyInt(text.n)]
    [] text.tok = "real" -> [ok |-> TRUE, value |-> PyFloat(text.n)]
    [] text.tok = "string" -> [ok |-> TRUE, value |-> PyStr(text.s)]
    [] text.tok = "array" -> [ok |-> TRUE, value |-> EmptyList]
    [] OTHER -> [ok |-> FALSE, value |-> NoValue]

----------------------------------------------------------------------------
(* Param *)

\* Param._create_attrs
_create_attrs(self) ==
  LET is_list == "list" \in Range(self.allowed_types)
  IN [self EXCEPT
        !.has_allowed_types = Len(self.allowed_types) > 0,
        !.is_list = is_list,
        !.read_frequency = IF self.static THEN "None" ELSE (IF self.live THEN 1 ELSE 10),
        !.allowed_types = IF is_list THEN ListRemove(self.allowed_types, "list")
                          ELSE self.allowed_types]

\* Param.__init__; allowed_types is given here as a list already (a bare type
\* is wrapped into a one-element list by the constructor)
Param(default, allowed_types, static, live, hidden) ==
  _create_attrs([default_value |-> default, allowed_types |-> allowed_types,
                 hidden |-> hidden, live |-> live, static |-> static,
                 has_allowed_types |-> FALSE, is_list |-> FALSE,
                 read_frequency |-> "None"])

\* Param.is_valid
is_valid(param, value) ==
  IF ~param.has_allowed_types THEN TRUE
  ELSE value.type \in Range(param.allowed_types)

\* opParams.__init__ (self.fork_params) and the two entries _run_init adds
fork_params ==
  [global_df_mod |-> Param(PyFloat(10), NUMBER, FALSE, TRUE, FALSE),
   min_TR |-> Param(PyFloat(9), NUMBER, FALSE, TRUE, FALSE),
   alca_no_nudge_speed |-> Param(PyFloat(900), NUMBER, FALSE, FALSE, FALSE),
   steer_ratio |-> Param(None, NONE_OR_NUMBER, FALSE, TRUE, FALSE),
   upload_onroad |-> Param(True, <<"bool">>, TRUE, FALSE, FALSE),
   update_behavior |-> Param(PyStr("alert"), <<"str">>, TRUE, FALSE, FALSE),
   dynamic_gas |-> Param(False, <<"bool">>, FALSE, FALSE, FALSE),
   hide_auto_df_alerts |-> Param(False, <<"bool">>, FALSE, FALSE, FALSE),
   df_button_alerts |-> Param(PyStr("audible"), <<"str">>, FALSE, FALSE, FALSE),
   disable_charging |-> Param(PyInt(30), NUMBER, TRUE, FALSE, FALSE),
   hide_model_long |-> Param(False, <<"bool">>, TRUE, FALSE, FALSE),
   use_steering_model |-> Param(False, <<"bool">>, TRUE, FALSE, FALSE),
   rav4TSS2_use_indi |-> Param(False, <<"bool">>, TRUE, FALSE, FALSE),
   standstill_hack |-> Param(False, <<"bool">>, TRUE, FALSE, FALSE),
   toyota_distance_btn |-> Param(False, <<"bool">>, TRUE, FALSE, FALSE),
   dynamic_follow |-> Param(PyStr("stock"), <<"str">>, TRUE, FALSE, TRUE),
   lane_speed_alerts |-> Param(PyStr("silent"), <<"str">>, TRUE, FALSE, TRUE),
   username |-> Param(None, <<"NoneType", "str", "bool">>, FALSE, FALSE, FALSE),
   op_edit_live_mode |-> Param(False, <<"bool">>, FALSE, FALSE, TRUE)]

\* self._to_delete
_to_delete == <<"use_lqr", "disengage_on_gas", "corollaTSS2_use_indi", "prius_use_pid">>

\* a file name that is neither registered nor listed for deletion
OtherName == "not_a_param"

\* the file names of PARAMS_DIR the model follows
AllKeys == DOMAIN fork_params \cup Range(_to_delete) \cup {OtherName}

----------------------------------------------------------------------------
(* Python dicts as functions with a changing domain *)

EmptyDict == [k \in {} |-> NoValue]

\* d[key] = value
DictSet(d, key, value) ==
  [k \in DOMAIN d \cup {key} |-> IF k = key THEN value ELSE d[k]]

----------------------------------------------------------------------------
(* Storage: the functions of the module that touch PARAMS_DIR.  fs is the  *)
(* content of the directory, name -> text or NoFile.                       *)

\* _read_param: [value, success, raised].  Only JSONDecodeError is caught;
\* open() on a missing file raises FileNotFoundError to the caller.
_read_param(fs, key) ==
  IF fs[key] = NoFile
  THEN [value |-> NoValue, success |-> FALSE, raised |-> "FileNotFoundError"]
  ELSE IF json_loads(fs[key]).ok
       THEN [value |-> json_loads(fs[key]).value, success |-> TRUE, raised |-> ""]
       ELSE [value |-> None, success |-> FALSE, raised |-> ""]

\* _write_param: atomic_write(param_path, overwrite=True) of json.dumps(value)
_write_param(fs, key, value) == [fs EXCEPT ![key] = json_dumps(value)]

\* os.remove(os.path.join(PARAMS_DIR, key))
os_remove(fs, key) == [fs EXCEPT ![key] = NoFile]

\* os.listdir(PARAMS_DIR), without the dot files
os_listdir(fs) == {k \in DOMAIN fs : fs[k] # NoFile}

----------------------------------------------------------------------------
(* The legacy file: absent, not JSON, or a JSON object key -> value *)

OldAbsent == [kind |-> "absent", map |-> EmptyDict]

OldMalformed == [kind |-> "malformed", map |-> EmptyDict]

OldObject(map) == [kind |-> "object", map |-> map]

\* _import_params: [files, imported].  Any failure is swallowed by the bare
\* except and leaves the marker uncreated; the marker is created after the
\* last key is written.
_import_params(fs, imp, old) ==
  IF old.kind # "absent" /\ ~imp
  THEN IF old.kind = "object"
       THEN [files |-> [k \in DOMAIN fs |->
                          IF k \in DOMAIN old.map THEN json_dumps(old.map[k]) ELSE fs[k]],
             imported |-> TRUE]
       ELSE [files |-> fs, imported |-> imp]
  ELSE [files |-> fs, imported |-> imp]

----------------------------------------------------------------------------
(* opParams: the helpers of construction, as functions of the cache and    *)
(* the directory they are given                                            *)

\* the keys _load_params reads: the files of the directory that are registered
LoadedKeys(fs) == {k \in os_listdir(fs) : k \in DOMAIN fork_params}

\* the loop body of _load_params for one listed, registered key: the value
\* that goes into the cache
load_value(fs, key) ==
  IF _read_param(fs, key).success THEN _read_param(fs, key).value
  ELSE fork_params[key].default_value

\* the same loop body without the write of the default
load_file_no_repair(fs, key) == fs[key]

\* the same loop body: the file it leaves
load_file(fs, key) ==
  IF _read_param(fs, key).success THEN fs[key]
  ELSE _write_param(fs, key, fork_params[key].default_value)[key]

\* the loop of _load_params over os.listdir(PARAMS_DIR): [params, files]
load_dir(fs) ==
  [params |-> [k \in LoadedKeys(fs) |-> load_value(fs, k)],
   files |-> [k \in DOMAIN fs |->
                IF fs[k] # NoFile /\ k \in DOMAIN fork_params THEN load_file(fs, k)
                ELSE fs[k]]]

\* _load_params: [params, files, imported].  The import runs only when the
\* directory had to be created.
_load_params(fs, dir, imp, old, can_import) ==
  IF ~dir /\ can_import
  THEN [params |-> load_dir(_import_params(fs, imp, old).files).params,
        files |-> load_dir(_import_params(fs, imp, old).files).files,
        imported |-> _import_params(fs, imp, old).imported]
  ELSE [params |-> load_dir(fs).params, files |-> load_dir(fs).files, imported |-> imp]

\* _add_default_params that fills the cache and forgets the file
_add_default_params_cache_only(ps, fs) ==
  LET missing == DOMAIN fork_params \ DOMAIN ps
  IN [params |-> [k \in DOMAIN ps \cup missing |->
                    IF k \in missing THEN fork_params[k].default_value ELSE ps[k]],
      files |-> fs]

\* _add_default_params without the branch for values of a disallowed type
_add_default_params_missing_only(ps, fs) ==
  LET missing == DOMAIN fork_params \ DOMAIN ps
  IN [params |-> [k \in DOMAIN ps \cup missing |->
                    IF k \in missing THEN fork_params[k].default_value ELSE ps[k]],
      files |-> [k \in DOMAIN fs |->
                   IF k \in missing
                   THEN _write_param(fs, k, fork_params[k].default_value)[k]
                   ELSE fs[k]]]

\* _add_default_params: [params, files]
_add_default_params(ps, fs) ==
  LET missing == DOMAIN fork_params \ DOMAIN ps
      invalid == {k \in DOMAIN fork_params \cap DOMAIN ps : ~is_valid(fork_params[k], ps[k])}
      fix == missing \cup invalid
  IN [params |-> [k \in DOMAIN ps \cup fix |->
                    IF k \in fix THEN fork_params[k].default_value ELSE ps[k]],
      files |-> [k \in DOMAIN fs |->
                   IF k \in fix
                   THEN _write_param(fs, k, fork_params[k].default_value)[k]
                   ELSE fs[k]]]

\* _delete_and_reset that skips the reset branch
_delete_and_reset_no_reset(ps, fs, reset) ==
  LET del == {k \in DOMAIN ps : k \in Range(_to_delete)}
  IN [params |-> [k \in DOMAIN ps \ del |-> ps[k]],
      files |-> [k \in DOMAIN fs |-> IF k \in del THEN os_remove(fs, k)[k] ELSE fs[k]]]

\* _delete_and_reset: [params, files].  The loop runs over the keys of the
\* cache, so a name that is not in the cache is never looked at.
_delete_and_reset(ps, fs, reset) ==
  LET del == {k \in DOMAIN ps : k \in Range(_to_delete)}
      rst == {k \in DOMAIN ps \ del : k \in reset /\ k \in DOMAIN fork_params}
  IN [params |-> [k \in DOMAIN ps \ del |->
                    IF k \in rst THEN fork_params[k].default_value ELSE ps[k]],
      files |-> [k \in DOMAIN fs |->
                   IF k \in del THEN os_remove(fs, k)[k]
                   ELSE IF k \in rst
                        THEN _write_param(fs, k, fork_params[k].default_value)[k]
                        ELSE fs[k]]]

\* _run_init: [params, files, imported]
_run_init(fs, dir, imp, old, reset) ==
  LET loaded == _load_params(fs, dir, imp, old, TRUE)
      added == _add_default_params(loaded.params, loaded.files)
      done == _delete_and_reset(added.params, added.files, reset)
  IN [params |-> done.params, files |-> done.files, imported |-> loaded.imported]

----------------------------------------------------------------------------------------------------------------------------------------
(* The record of the last call: what was called and with what, what it     *)
(* returned or raised, which files it read and whether a read hit a        *)
(* JSONDecodeError, and, for a get, the value of the put that came right   *)
(* before it on the same key (NoValue when none did).                      *)

NoCall(op) ==
  [op |-> op, key |-> "", force_update |-> FALSE, value |-> NoValue,
   ret |-> NoValue, all |-> EmptyDict, raised |-> "", read |-> {},
   decode_error |-> FALSE, after_put |-> NoValue, reset |-> {}]

\* the value of the successful put(key, v) that is the last call, if it is one
JustPut(key) ==
  IF last.op = "put" /\ last.key = key /\ last.raised = "" THEN last.value ELSE NoValue

----------------------------------------------------------------------------
(* get *)

\* _check_key_exists: FALSE stands for the exception it raises
_check_key_exists(key) == key \in DOMAIN fork_params

\* the refresh condition with the live and the normal interval swapped
refresh_due_swapped(param, t, lr, force_update) ==
  (~param.static /\ t - lr >= (IF param.live THEN 10 ELSE 1)) \/ force_update

\* the condition of get under which the file is read again
refresh_due(param, t, lr, force_update) ==
  (~param.static /\ t - lr >= param.read_frequency) \/ force_update

\* the return of get without the type check
checked_value_unchecked(param, value) == value

\* the return of get: the cached value, or the default when the cached value
\* is not of an allowed type
checked_value(param, value) ==
  IF is_valid(param, value) THEN value ELSE param.default_value

\* the refresh of get with the fallback to the default but without the write
refresh_no_repair(ps, fs, lr, key, t) ==
  LET r == _read_param(fs, key)
      value == IF r.success THEN r.value ELSE fork_params[key].default_value
  IN [params |-> DictSet(ps, key, value), files |-> fs,
      last_read |-> [lr EXCEPT ![key] = t]]

\* the refresh of get that forgets the time of the read
refresh_keeps_last_read(ps, fs, lr, key, t) ==
  LET r == _read_param(fs, key)
      value == IF r.success THEN r.value ELSE fork_params[key].default_value
  IN [params |-> DictSet(ps, key, value),
      files |-> IF r.success THEN fs ELSE _write_param(fs, key, value),
      last_read |-> lr]

\* the refresh of get that treats a value of a disallowed type as it treats a
\* file that is not JSON
refresh_type_repair(ps, fs, lr, key, t) ==
  LET r == _read_param(fs, key)
      good == r.success /\ is_valid(fork_params[key], r.value)
      value == IF good THEN r.value ELSE fork_params[key].default_value
  IN [params |-> DictSet(ps, key, value),
      files |-> IF good THEN fs ELSE _write_param(fs, key, value),
      last_read |-> [lr EXCEPT ![key] = t]]

\* the refresh of get, once the file has been opened: [params, files, last_read]
refresh(ps, fs, lr, key, t) ==
  LET r == _read_param(fs, key)
      value == IF r.success THEN r.value ELSE fork_params[key].default_value
  IN [params |-> DictSet(ps, key, value),
      files |-> IF r.success THEN fs ELSE _write_param(fs, key, value),
      last_read |-> [lr EXCEPT ![key] = t]]

\* get(key, force_update=...)
Get(key, force_update) ==
  /\ pc = "ready"
  /\ UNCHANGED <<aside, import_failed, pc, now, focus, dir_exists, imported, old_params_file>>
  /\ LET call == [NoCall("get") EXCEPT !.key = key, !.force_update = force_update,
                                       !.after_put = JustPut(key)]
     IN IF ~_check_key_exists(key)
        THEN \* _check_key_exists raises
             /\ last' = [call EXCEPT !.raised = "UnknownParameter"]
             /\ UNCHANGED <<files, params, last_read>>
        ELSE IF refresh_due(fork_params[key], now, last_read[key], force_update)
             THEN IF _read_param(files, key).raised # ""
                  THEN \* open() raises, before last_read is set
                       /\ last' = [call EXCEPT !.raised = _read_param(files, key).raised,
                                               !.read = {key}]
                       /\ UNCHANGED <<files, params, last_read>>
                  ELSE \E r \in {refresh(params, files, last_read, key, now)} :
                         /\ params' = r.params
                         /\ files' = r.files
                         /\ last_read' = r.last_read
                         /\ last' = [call EXCEPT
                                       !.ret = checked_value(fork_params[key], r.params[key]),
                                       !.read = {key},
                                       !.decode_error = ~_read_param(files, key).success]
             ELSE /\ UNCHANGED <<files, params, last_read>>
                  /\ IF key \in DOMAIN params
                     THEN last' = [call EXCEPT
                                     !.ret = checked_value(fork_params[key], params[key])]
                     ELSE \* self.params[key] raises
                          last' = [call EXCEPT !.raised = "KeyError"]

\* _get_all_params: [params, files, imported, all, read]
_get_all_params(ps, fs, dir, imp, old, to_update) ==
  LET loaded == IF to_update THEN _load_params(fs, dir, imp, old, FALSE)
                ELSE [params |-> ps, files |-> fs, imported |-> imp]
  IN [params |-> loaded.params, files |-> loaded.files, imported |-> loaded.imported,
      all |-> [k \in {h \in DOMAIN loaded.params : ~fork_params[h].hidden} |->
                 loaded.params[k]],
      read |-> IF to_update THEN LoadedKeys(fs) ELSE {}]

\* get(key=None, force_update=...)
GetAll(force_update) ==
  /\ pc = "ready"
  /\ UNCHANGED <<aside, import_failed, pc, now, focus, dir_exists, old_params_file, last_read>>
  /\ \E r \in {_get_all_params(params, files, dir_exists, imported, old_params_file,
                                force_update)} :
        /\ params' = r.params
        /\ files' = r.files
        /\ imported' = r.imported
        /\ last' = [NoCall("get_all") EXCEPT !.force_update = force_update,
                                             !.all = r.all, !.read = r.read]

----------------------------------------------------------------------------
(* put *)

\* put that writes the cache before it checks the value
put_effect_unchecked(ps, fs, key, value) ==
  [params |-> DictSet(ps, key, value), files |-> _write_param(fs, key, value),
   raised |-> IF is_valid(fork_params[key], value) THEN "" ELSE "InvalidValueType"]

\* put that updates the cache and leaves the file to the next write
put_effect_cache_only(ps, fs, key, value) ==
  IF ~is_valid(fork_params[key], value)
  THEN [params |-> ps, files |-> fs, raised |-> "InvalidValueType"]
  ELSE [params |-> DictSet(ps, key, value), files |-> fs, raised |-> ""]

\* put on a registered key: [params, files, raised]
put_effect(ps, fs, key, value) ==
  IF ~is_valid(fork_params[key], value)
  THEN [params |-> ps, files |-> fs, raised |-> "InvalidValueType"]
  ELSE [params |-> DictSet(ps, key, value), files |-> _write_param(fs, key, value),
        raised |-> ""]

\* put that looks the key up after it has written the file
put_write_first(ps, fs, key, value) ==
  IF ~_check_key_exists(key)
  THEN [params |-> ps, files |-> _write_param(fs, key, value),
        raised |-> "UnknownParameter"]
  ELSE put_effect(ps, fs, key, value)

\* put: [params, files, raised]
put(ps, fs, key, value) ==
  IF ~_check_key_exists(key)
  THEN [params |-> ps, files |-> fs, raised |-> "UnknownParameter"]
  ELSE put_effect(ps, fs, key, value)

\* put(key, value)
Put(key, value) ==
  /\ pc = "ready"
  /\ UNCHANGED <<aside, import_failed, pc, now, focus, dir_exists, imported, old_params_file, last_read>>
  /\ \E r \in {put(params, files, key, value)} :
        /\ params' = r.params
        /\ files' = r.files
        /\ last' = [NoCall("put") EXCEPT !.key = key, !.value = value,
                                         !.raised = r.raised]

----------------------------------------------------------------------------
(* Construction *)

\* self._to_reset is [] in this revision; it is the list a release fills in,
\* so construction is followed for the empty list and for a list naming the
\* key (last.reset keeps which)
ResetLists == {{}, {focus}}

\* opParams(): __init__ and _run_init, with every Param created anew
Construct(_to_reset) ==
  /\ pc = "new"
  /\ \E r \in {_run_init(files, dir_exists, imported, old_params_file, _to_reset)} :
        /\ params' = r.params
        /\ files' = r.files
        /\ imported' = r.imported
  /\ dir_exists' = TRUE
  /\ last_read' = [k \in DOMAIN fork_params |-> -1]
  /\ pc' = "ready"
  /\ import_failed' = (import_failed
                       \/ (~dir_exists /\ ~imported /\ old_params_file.kind = "malformed"))
  /\ last' = [NoCall("init") EXCEPT !.reset = _to_reset]
  /\ UNCHANGED <<aside, now, focus, old_params_file>>

----------------------------------------------------------------------------
(* The environment: the clock, and the other processes and users that      *)
(* change the file of the key                                              *)

Tick ==
  /\ now < MaxTime
  /\ now' = now + 1
  /\ last' = NoCall("tick")
  /\ UNCHANGED <<aside, import_failed, pc, focus, dir_exists, files, imported, old_params_file, params,
                 last_read>>

\* the texts another process leaves in a file
Contents == {Malformed} \cup {json_dumps(v) : v \in Values}

ExternalWrite(text) ==
  /\ pc = "ready"
  /\ files[focus] # text
  /\ files' = [files EXCEPT ![focus] = text]
  /\ last' = NoCall("external")
  /\ UNCHANGED <<aside, import_failed, pc, now, focus, dir_exists, imported, old_params_file, params,
                 last_read>>

ExternalRemove ==
  /\ pc = "ready"
  /\ files[focus] # NoFile
  /\ files' = [files EXCEPT ![focus] = NoFile]
  /\ last' = NoCall("external")
  /\ UNCHANGED <<aside, import_failed, pc, now, focus, dir_exists, imported, old_params_file, params,
                 last_read>>

\* another opParams() later on: the process has ended and the device is
\* started again.  The object, its cache and its Param objects are gone and
\* the clock starts over; the directory and the legacy file stay.
Restart ==
  /\ pc = "ready"
  /\ pc' = "new"
  /\ now' = 0
  /\ params' = EmptyDict
  /\ last_read' = [k \in DOMAIN fork_params |-> -1]
  /\ last' = NoCall("exit")
  /\ UNCHANGED <<aside, import_failed, focus, dir_exists, files, imported,
                 old_params_file>>

\* the user repairs an OLD_PARAMS_FILE that was not JSON, between two runs
\* (the file is read at construction only)
ExternalLegacy(old) ==
  /\ pc = "new"
  /\ old_params_file.kind = "malformed"
  /\ old_params_file' = old
  /\ last' = NoCall("external")
  /\ UNCHANGED <<aside, import_failed, pc, now, focus, dir_exists, files, imported,
                 params, last_read>>

----------------------------------------------------------------------------
(* The specification *)

\* the keys a run may work on: a live, a normal and a static parameter, and a
\* name listed in _to_delete
FocusKeys == {"min_TR", "dynamic_gas", "hide_model_long", "use_lqr"}

NoFiles == [k \in AllKeys |-> NoFile]

\* the legacy file when it is a JSON object: a registered key and a key that
\* is listed in _to_delete
LegacyMap == [min_TR |-> PyInt(30), use_lqr |-> True]

\* the states of the legacy file a run starts from; the file is followed only
\* in the runs that work on a key it holds
LegacyFiles(key) ==
  IF key \in DOMAIN LegacyMap THEN {OldAbsent, OldMalformed, OldObject(LegacyMap)}
  ELSE {OldAbsent}

\* the value of a variable in a specification that does not follow it
NotFollowed == "-"

\* Before construction: either PARAMS_DIR does not exist (and the legacy file
\* is absent, malformed or an object), or it exists, left by an earlier run
\* that found no legacy file, and holds at most the file of the key.
Init ==
  /\ pc = "new"
  /\ now = 0
  /\ focus \in FocusKeys
  /\ import_failed = FALSE
  /\ valid_call = NotFollowed
  /\ disk = NotFollowed
  /\ procs = NotFollowed
  /\ params = EmptyDict
  /\ last_read = [k \in DOMAIN fork_params |-> -1]
  /\ last = NoCall("none")
  /\ \/ /\ dir_exists = FALSE
        /\ imported = FALSE
        /\ files = NoFiles
        /\ old_params_file \in LegacyFiles(focus)
     \/ /\ dir_exists = TRUE
        /\ files \in {[NoFiles EXCEPT ![focus] = c] : c \in Contents \cup {NoFile}}
        /\ imported = FALSE
        /\ old_params_file = OldAbsent

Next ==
  \/ \E _to_reset \in ResetLists : Construct(_to_reset)
  \/ \E force_update \in BOOLEAN : Get(focus, force_update)
  \/ \E force_update \in BOOLEAN : GetAll(force_update)
  \/ \E value \in Values : Put(focus, value)
  \/ \E text \in Contents : ExternalWrite(text)
  \/ ExternalRemove
  \/ \E old \in {OldObject(LegacyMap)} : ExternalLegacy(old)
  \/ Restart
  \/ Tick

Spec == Init /\ [][Next]_vars

\* one process on its own: nobody else touches PARAMS_DIR once the object
\* is constructed
NextSolo ==
  \/ \E _to_reset \in ResetLists : Construct(_to_reset)
  \/ \E force_update \in BOOLEAN : Get(focus, force_update)
  \/ \E force_update \in BOOLEAN : GetAll(force_update)
  \/ \E value \in Values : Put(focus, value)
  \/ Tick

SpecSolo == Init /\ [][NextSolo]_vars

----------------------------------------------------------------------------
(* Param.is_valid on its own: a Param is declared, then is_valid is called  *)
(* on it with one value after another                                      *)

\* allowed_types as declarations write them, the list marker included; every
\* default below is of a declared type, as the assert of _create_attrs wants
ListDeclarations ==
  {[default |-> PyList(<<PyInt(1), PyInt(2)>>), allowed_types |-> <<"list", "int">>],
   [default |-> PyList(<<>>), allowed_types |-> <<"list", "float", "int">>],
   [default |-> PyList(<<>>), allowed_types |-> <<"list">>],
   [default |-> PyInt(3), allowed_types |-> <<"int", "list">>],
   [default |-> None, allowed_types |-> <<>>]}

\* the declarations of the registry
RegistryDeclarations ==
  {[default |-> fork_params[k].default_value,
    allowed_types |-> fork_params[k].allowed_types] : k \in DOMAIN fork_params}

Declarations == ListDeclarations \cup RegistryDeclarations

\* the values is_valid is asked about
ProbeValues ==
  {None, True, PyInt(30), PyFloat(12), PyStr("alert"), PyList(<<>>),
   PyList(<<PyInt(1), PyInt(2)>>), PyList(<<PyInt(1), PyStr("a")>>),
   PyList(<<PyStr("a")>>)}

\* param.is_valid(value)
IsValidCall(value) ==
  /\ valid_call.value # value
  /\ valid_call' = [valid_call EXCEPT !.value = value,
                                      !.ret = is_valid(valid_call.param, value)]
  /\ UNCHANGED <<pc, now, focus, dir_exists, files, imported, old_params_file,
                 params, last_read, last, import_failed, disk, procs>>

InitValid ==
  /\ \E d \in Declarations, static \in BOOLEAN :
        valid_call = [declared |-> d.allowed_types,
                      param |-> Param(d.default, d.allowed_types, static, FALSE, FALSE),
                      value |-> NoValue, ret |-> FALSE]
  /\ pc = NotFollowed /\ now = NotFollowed /\ focus = NotFollowed
  /\ dir_exists = NotFollowed /\ files = NotFollowed /\ imported = NotFollowed
  /\ old_params_file = NotFollowed /\ params = NotFollowed
  /\ last_read = NotFollowed /\ last = NotFollowed /\ import_failed = NotFollowed
  /\ disk = NotFollowed /\ procs = NotFollowed

NextValid == \E value \in ProbeValues : IsValidCall(value)

SpecValid == InitValid /\ [][NextValid]_vars

----------------------------------------------------------------------------
(* The file of one key and several processes: two that write it with       *)
(* _write_param (a put, a self-healing rewrite) and one that reads it with *)
(* _read_param, their file operations interleaved.  The directory entry of *)
(* the key names an inode; an inode holds the pieces written to it so far. *)

\* the pieces f.write(json.dumps(value)) reaches the file in
Chunks == 2

Writers == {"w1", "w2"}

Reader == "r"

\* the inode the file had at the start, and one temporary file per writer
Inodes == {"old"} \cup Writers

Chunk(value, part) == [text |-> json_dumps(value), part |-> part]

\* a hole left by a write past the end of the file
Hole == [text |-> NoFile, part |-> 0]

\* the whole text of json.dumps(value)
FullText(value) == [i \in 1..Chunks |-> Chunk(value, i)]

\* a write of piece at offset part of a file holding content
WriteAt(content, part, piece) ==
  [i \in 1..(IF Len(content) > part THEN Len(content) ELSE part) |->
     IF i = part THEN piece
     ELSE IF i <= Len(content) THEN content[i] ELSE Hole]

\* open(param_path, 'w'): the file of the key itself, truncated
open_in_place(d, w) ==
  [disk |-> [d EXCEPT !.inodes[d.target] = <<>>], handle |-> d.target]

\* entering `with atomic_write(param_path, overwrite=True) as f`: f is a new
\* temporary file in the directory of the key: [disk, handle]
atomic_write_open(d, w) ==
  [disk |-> [d EXCEPT !.inodes[w] = <<>>], handle |-> w]

\* leaving the with block: the temporary file is renamed over param_path
atomic_write_commit(d, w, handle) ==
  [d EXCEPT !.target = handle, !.log = Append(d.log, w)]

WriteOpen(w) ==
  /\ procs[w].pc = "idle"
  /\ \E r \in {atomic_write_open(disk, w)} :
        /\ disk' = r.disk
        /\ procs' = [procs EXCEPT ![w].pc = "writing", ![w].handle = r.handle]
  /\ UNCHANGED <<pc, now, focus, dir_exists, files, imported, old_params_file,
                 params, last_read, last, import_failed, valid_call>>

\* f.write: the next piece of the text, at the offset of this handle
WriteChunk(w) ==
  /\ procs[w].pc = "writing"
  /\ procs[w].written < Chunks
  /\ disk' = [disk EXCEPT !.inodes[procs[w].handle] =
                 WriteAt(@, procs[w].written + 1,
                         Chunk(procs[w].value, procs[w].written + 1))]
  /\ procs' = [procs EXCEPT ![w].written = @ + 1]
  /\ UNCHANGED <<pc, now, focus, dir_exists, files, imported, old_params_file,
                 params, last_read, last, import_failed, valid_call>>

WriteCommit(w) ==
  /\ procs[w].pc = "writing"
  /\ procs[w].written = Chunks
  /\ disk' = atomic_write_commit(disk, w, procs[w].handle)
  /\ procs' = [procs EXCEPT ![w].pc = "done"]
  /\ UNCHANGED <<pc, now, focus, dir_exists, files, imported, old_params_file,
                 params, last_read, last, import_failed, valid_call>>

\* _read_param: open(os.path.join(PARAMS_DIR, key), 'r')
ReadOpen ==
  /\ procs[Reader].pc = "idle"
  /\ procs' = [procs EXCEPT ![Reader].pc = "reading", ![Reader].handle = disk.target]
  /\ UNCHANGED <<pc, now, focus, dir_exists, files, imported, old_params_file,
                 params, last_read, last, import_failed, valid_call, disk>>

\* _read_param: f.read()
ReadAll ==
  /\ procs[Reader].pc = "reading"
  /\ procs' = [procs EXCEPT ![Reader].pc = "done",
                            ![Reader].data = disk.inodes[procs[Reader].handle]]
  /\ UNCHANGED <<pc, now, focus, dir_exists, files, imported, old_params_file,
                 params, last_read, last, import_failed, valid_call, disk>>

\* a process that has not started
Idle(value) == [pc |-> "idle", value |-> value, handle |-> "", written |-> 0, data |-> <<>>]

\* The file holds a complete value, the first writer puts a value and the
\* second rewrites the default of the key.
InitAtomic ==
  /\ \E was \in {PyFloat(9), PyInt(30)} : \E value \in Values \ {was} :
        /\ disk = [target |-> "old",
                   inodes |-> [i \in Inodes |-> IF i = "old" THEN FullText(was) ELSE <<>>],
                   log |-> <<>>, was |-> was]
        /\ procs = [p \in Writers \cup {Reader} |->
                      IF p = "w1" THEN Idle(value)
                      ELSE IF p = "w2" THEN Idle(fork_params["min_TR"].default_value)
                      ELSE Idle(NoValue)]
  /\ pc = NotFollowed /\ now = NotFollowed /\ focus = NotFollowed
  /\ dir_exists = NotFollowed /\ files = NotFollowed /\ imported = NotFollowed
  /\ old_params_file = NotFollowed /\ params = NotFollowed
  /\ last_read = NotFollowed /\ last = NotFollowed /\ import_failed = NotFollowed
  /\ valid_call = NotFollowed

NextAtomic ==
  \/ \E w \in Writers : WriteOpen(w)
  \/ \E w \in Writers : WriteChunk(w)
  \/ \E w \in Writers : WriteCommit(w)
  \/ ReadOpen
  \/ ReadAll

SpecAtomic == InitAtomic /\ [][NextAtomic]_vars

----------------------------------------------------------------------------
(* Properties *)

Registered(key) == key \in DOMAIN fork_params

DefaultOf(key) == fork_params[key].default_value

\* seconds between two reads of a non-static parameter's file
IntervalOf(key) == IF fork_params[key].live THEN 1 ELSE 10

\* the call that has just returned is get(key, ...) on a registered key
GotKey == last.op = "get" /\ Registered(last.key)

\* C1: put(k, v) with a valid v immediately followed by get(k,
\* force_update=True) returns v, for static, live and normal keys alike.
C1_PutThenForcedGet ==
  (GotKey /\ last.force_update /\ last.after_put # NoValue)
    => (last.raised = "" /\ last.ret = last.after_put)

\* a forced get right after a put on a static key returned the value put, a
\* value other than the default
C1_Witness ==
  /\ GotKey /\ last.force_update /\ last.after_put # NoValue
  /\ fork_params[last.key].static
  /\ last.ret = last.after_put
  /\ last.ret # DefaultOf(last.key)

\* C2: put(k, v) on a registered key with a value that fails is_valid raises
\* and leaves the cache and the file of k as they were.
C2_InvalidPutChangesNothing ==
  [][(last'.op = "put" /\ Registered(last'.key)
        /\ last'.value.type \notin Range(fork_params[last'.key].allowed_types))
       => (/\ last'.raised = "InvalidValueType"
           /\ params' = params
           /\ files' = files)]_vars

\* a put was refused for its type while the cache and the file hold another value
C2_Witness ==
  /\ last.op = "put" /\ last.raised = "InvalidValueType"
  /\ params[last.key] # last.value
  /\ files[last.key] # json_dumps(last.value)

\* C3 as stated: whenever the file of a registered key is malformed, the next
\* get(key), whatever the flags and the time, returns the default and leaves
\* the file holding the default.
C3_AnyGetRepairs ==
  [][(last'.op = "get" /\ Registered(last'.key) /\ files[last'.key] = Malformed)
       => (/\ last'.raised = ""
           /\ last'.ret = DefaultOf(last'.key)
           /\ files'[last'.key] = json_dumps(DefaultOf(last'.key)))]_vars

\* the get re-reads the file: force_update, or a non-static key whose interval
\* has elapsed since its last_read
Rereads(key, force_update) ==
  force_update \/ (~fork_params[key].static /\ now - last_read[key] >= IntervalOf(key))

\* C3 amended: when the file of a registered key is malformed, a get(key) that
\* re-reads it returns the default and leaves the default in the file (valid
\* JSON) and in the cache; a get that does not re-read leaves the file as it is.
C3_RereadingGetRepairs ==
  [][(last'.op = "get" /\ Registered(last'.key) /\ files[last'.key] = Malformed)
       => IF Rereads(last'.key, last'.force_update)
          THEN /\ last'.raised = ""
               /\ last'.ret = DefaultOf(last'.key)
               /\ files'[last'.key] = json_dumps(DefaultOf(last'.key))
               /\ json_loads(files'[last'.key]) = [ok |-> TRUE, value |-> DefaultOf(last'.key)]
               /\ params'[last'.key] = DefaultOf(last'.key)
          ELSE files' = files /\ params' = params]_vars

\* a get of a normal key, not forced, found its file malformed when its ten
\* seconds had elapsed, and repaired it
C3_Witness ==
  /\ GotKey /\ ~last.force_update /\ last.decode_error
  /\ ~fork_params[last.key].live
  /\ last.ret = DefaultOf(last.key)
  /\ files[last.key] = json_dumps(DefaultOf(last.key))

\* C4: get(key) on a registered key never raises because of the state of the
\* key's file (missing or malformed).
C4_GetNeverRaises == GotKey => last.raised = ""

\* C5: no get after construction reads the file of a static parameter.
C5_StaticNeverReread ==
  last.op \in {"get", "get_all"} => \A k \in last.read : ~fork_params[k].static

C7_ReturnedValueIsValid ==
  (GotKey /\ last.raised = "")
    => last.ret.type \in Range(fork_params[last.key].allowed_types)

\* a get returned the default while the cache holds a value of another type
C7_Witness ==
  /\ GotKey /\ last.raised = ""
  /\ last.key \in DOMAIN params
  /\ params[last.key].type \notin Range(fork_params[last.key].allowed_types)
  /\ last.ret = DefaultOf(last.key)

\* C8: once construction has completed, a key listed in _to_delete has neither
\* a cache entry nor a file.
C8_DeletedKeysAreGone ==
  last.op = "init"
    => \A k \in Range(_to_delete) : k \notin DOMAIN params /\ files[k] = NoFile

\* C9: once construction has completed, every registered key has a cache entry
\* and a file.
C9_EveryKeyHasAFile ==
  last.op = "init"
    => \A k \in DOMAIN fork_params : k \in DOMAIN params /\ files[k] # NoFile

\* construction found the directory missing, imported the legacy file, and
\* left a file for the imported key and for the others
C9_Witness ==
  /\ last.op = "init" /\ imported
  /\ files["min_TR"] = json_dumps(PyInt(30))
  /\ files["dynamic_gas"] = json_dumps(False)

\* C10: once construction has completed, a registered key listed in _to_reset
\* holds its default in the cache and in its file.
C10_ResetKeysHoldDefault ==
  last.op = "init"
    => \A k \in last.reset \cap DOMAIN fork_params :
         /\ k \in DOMAIN params /\ params[k] = DefaultOf(k)
         /\ json_loads(files[k]) = [ok |-> TRUE, value |-> DefaultOf(k)]

\* construction imported 30 for min_TR from the legacy file and then reset it
C10_Witness ==
  /\ last.op = "init" /\ last.reset = {"min_TR"} /\ imported
  /\ params["min_TR"] = PyFloat(9)
  /\ files["min_TR"] = json_dumps(PyFloat(9))

\* the keys and values of the legacy file when it is a JSON object
LegacyKeys == DOMAIN old_params_file.map

\* C11: a construction that finds the legacy file a JSON object and no marker
\* leaves, for each key of the object, a file holding the migrated value (in
\* the cache too when the key is registered) and leaves the marker; a
\* construction that finds the marker writes no legacy value to any file.
C11_LegacyImported ==
  [][(last'.op = "init" /\ last'.reset = {})
       => /\ (old_params_file.kind = "object" /\ ~imported)
               => /\ imported'
                  /\ \A k \in LegacyKeys :
                       /\ files'[k] = json_dumps(old_params_file.map[k])
                       /\ Registered(k)
                            => (k \in DOMAIN params' /\ params'[k] = old_params_file.map[k])
          /\ imported
               => \A k \in LegacyKeys :
                    files'[k] = json_dumps(old_params_file.map[k]) => files'[k] = files[k]]_vars

\* C12: a construction whose import fails on a malformed legacy file still
\* completes and leaves no marker, and a later construction that finds the
\* legacy file readable (and still no marker) migrates it.
C12_FailedImportIsRetried ==
  [][(last'.op = "init" /\ last'.reset = {})
       => /\ (~dir_exists /\ ~imported /\ old_params_file.kind = "malformed")
               => (pc' = "ready" /\ ~imported' /\ import_failed')
          /\ (import_failed /\ ~imported /\ old_params_file.kind = "object")
               => /\ imported'
                  /\ \A k \in LegacyKeys :
                       files'[k] = json_dumps(old_params_file.map[k])]_vars

\* the registered keys that are not hidden
VisibleKeys == {k \in DOMAIN fork_params : ~fork_params[k].hidden}

\* C13: get() with no key, with or without force_update, returns a mapping
\* whose keys are exactly the registered keys that are not hidden.
C13_BulkGetListsVisibleKeys ==
  last.op = "get_all" => DOMAIN last.all = VisibleKeys

\* C14: get or put with a key that is not registered raises and changes
\* neither the cache, nor any file, nor any last_read.
C14_UnknownKeyChangesNothing ==
  [][(last'.op \in {"get", "put"} /\ last'.key \notin DOMAIN fork_params)
       => (/\ last'.raised = "UnknownParameter"
           /\ params' = params
           /\ files' = files
           /\ last_read' = last_read)]_vars

\* put was refused for a name that is not registered although a file of that
\* name is in the directory, and the file is still what it was
C14_Witness ==
  /\ last.op = "put" /\ last.raised = "UnknownParameter"
  /\ last.key \in Range(_to_delete)
  /\ files[last.key] = json_dumps(True)
  /\ last.value # True
  /\ last.key \notin DOMAIN params

\* the value the file of key holds when it parses (NoValue otherwise)
FileValue(key) ==
  IF json_loads(files[key]).ok THEN json_loads(files[key]).value ELSE NoValue

\* the file of key parses and holds a value of a type the key allows
FileIsGood(key) ==
  /\ json_loads(files[key]).ok
  /\ json_loads(files[key]).value.type \in Range(fork_params[key].allowed_types)

\* C16: a get(key) on a registered non-static key that is due or forced, when
\* the file holds parseable JSON of an allowed type, returns the value of the
\* file, stores it in the cache and sets the key's last_read to the time of
\* the call.
C16_DueGetReturnsFileValue ==
  [][(/\ last'.op = "get" /\ Registered(last'.key)
      /\ ~fork_params[last'.key].static
      /\ Rereads(last'.key, last'.force_update)
      /\ FileIsGood(last'.key))
       => (/\ last'.raised = ""
           /\ last'.ret = FileValue(last'.key)
           /\ params'[last'.key] = FileValue(last'.key)
           /\ last_read'[last'.key] = now
           /\ files' = files)]_vars

\* a get of a normal key that was not forced and did not follow a put found
\* its ten seconds elapsed, read the file and returned the value it holds, a
\* value other than the default
C16_Witness ==
  /\ GotKey /\ ~last.force_update /\ last.after_put = NoValue
  /\ ~fork_params[last.key].static /\ ~fork_params[last.key].live
  /\ last.read = {last.key} /\ ~last.decode_error
  /\ last.ret = True
  /\ params[last.key] = True
  /\ last_read[last.key] = now /\ now >= 9

\* the value get(key) is about to end up with in the cache is parseable JSON
\* but of a type the key does not allow: read from the file when the get
\* re-reads, already in the cache when it does not
StaleValue(key, force_update) ==
  IF Rereads(key, force_update) THEN FileValue(key)
  ELSE IF key \in DOMAIN params THEN params[key] ELSE NoValue

StaleTypeMismatch(key, force_update) ==
  /\ StaleValue(key, force_update) # NoValue
  /\ StaleValue(key, force_update).type \notin Range(fork_params[key].allowed_types)

\* C17: when the value get(key) ends up with in the cache parses but is not
\* of an allowed type, get returns the default, no file is rewritten and the
\* cache entry holds the invalid value.
C17_StaleTypeReturnsDefaultOnly ==
  [][(/\ last'.op = "get" /\ Registered(last'.key)
      /\ StaleTypeMismatch(last'.key, last'.force_update))
       => (/\ last'.raised = ""
           /\ last'.ret = DefaultOf(last'.key)
           /\ files' = files
           /\ params'[last'.key] = StaleValue(last'.key, last'.force_update)
           /\ params'[last'.key] # DefaultOf(last'.key))]_vars

\* a get re-read a file holding null for a key that allows numbers only,
\* returned the default, and left null in the file and in the cache
C17_Witness ==
  /\ GotKey /\ last.raised = "" /\ last.read = {last.key} /\ ~last.decode_error
  /\ last.ret = DefaultOf(last.key)
  /\ params[last.key] = None
  /\ files[last.key] = json_dumps(None)
  /\ "NoneType" \notin Range(fork_params[last.key].allowed_types)

\* the cache and the file of key hold value
Holds(ps, fs, key, value) ==
  /\ key \in DOMAIN ps /\ ps[key] = value
  /\ json_loads(fs[key]) = [ok |-> TRUE, value |-> value]

\* C18 as stated: construction leaves, for each registered key not listed for
\* reset, the value its file held before construction when that file existed
\* with parseable JSON of an allowed type, and the default in the cache and in
\* the file in every other case; every cached value is then of an allowed type.
C18_KeepsFileOrDefault ==
  [][last'.op = "init"
       => /\ \A k \in DOMAIN fork_params \ last'.reset :
               IF FileIsGood(k)
               THEN Holds(params', files', k, FileValue(k)) /\ files'[k] = files[k]
               ELSE Holds(params', files', k, DefaultOf(k))
          /\ \A k \in DOMAIN fork_params :
               /\ k \in DOMAIN params'
               /\ params'[k].type \in Range(fork_params[k].allowed_types)]_vars

\* this construction runs the legacy import and the import writes a file for key
Migrates(key) ==
  /\ ~dir_exists /\ ~imported
  /\ old_params_file.kind = "object"
  /\ key \in DOMAIN old_params_file.map

\* the text of the file of key as the load step of this construction finds it
FoundText(key) ==
  IF Migrates(key) THEN json_dumps(old_params_file.map[key]) ELSE files[key]

\* C18 amended: the file counts as the load step finds it, that is as it
\* was before construction or as the legacy import of this construction wrote
\* it.  When it holds parseable JSON of an allowed type the cache and the file
\* keep that value; in every other case both hold the default.  Every cached
\* value is then of an allowed type.
C18_KeepsFoundOrDefault ==
  [][last'.op = "init"
       => /\ \A k \in DOMAIN fork_params \ last'.reset :
               IF /\ json_loads(FoundText(k)).ok
                  /\ json_loads(FoundText(k)).value.type
                       \in Range(fork_params[k].allowed_types)
               THEN /\ Holds(params', files', k, json_loads(FoundText(k)).value)
                    /\ files'[k] = FoundText(k)
               ELSE Holds(params', files', k, DefaultOf(k))
          /\ \A k \in DOMAIN fork_params :
               /\ k \in DOMAIN params'
               /\ params'[k].type \in Range(fork_params[k].allowed_types)]_vars

\* construction found no directory, migrated 30 for min_TR from the legacy
\* file and kept it, and gave the keys the legacy file does not name their
\* defaults
C18_Witness ==
  /\ last.op = "init" /\ last.reset = {} /\ imported
  /\ Holds(params, files, "min_TR", PyInt(30))
  /\ Holds(params, files, "global_df_mod", PyFloat(10))
  /\ Holds(params, files, "username", None)

\* C20: in a single process, with no change to the parameter files from
\* outside, after construction and after any sequence of get (of a key or of
\* all, forced or not) and put, the cache entry of every registered key equals
\* the JSON value its file holds.
C20_CacheEqualsDisk ==
  pc = "ready"
    => \A k \in DOMAIN fork_params :
         /\ k \in DOMAIN params
         /\ json_loads(files[k]) = [ok |-> TRUE, value |-> params[k]]

\* a forced bulk get, later than construction, reloaded from the file of the
\* key a value other than the default
C20_Witness ==
  /\ last.op = "get_all" /\ last.force_update
  /\ focus \in last.read
  /\ params[focus] # DefaultOf(focus)
  /\ files[focus] = json_dumps(params[focus])
  /\ now > 0

\* what the claim says is_valid answers, from the types as declared
ClaimedValid(declared, value) ==
  IF Len(declared) = 0 THEN TRUE
  ELSE IF value.type = "list" /\ "list" \in Range(declared)
       THEN \A i \in 1..Len(value.elems) :
              value.elems[i].type \in Range(declared) \ {"list"}
       ELSE value.type \in Range(declared)

\* C19: is_valid answers TRUE for every value when no type is declared;
\* otherwise TRUE exactly for the values of a declared type, a list under a
\* declaration with the list marker being valid when its elements are of the
\* remaining declared types; the own list default of a Param is valid.
C19_IsValidAsDeclared ==
  /\ valid_call.value # NoValue
       => valid_call.ret = ClaimedValid(valid_call.declared, valid_call.value)
  /\ (valid_call.value = valid_call.param.default_value /\ valid_call.value.type = "list")
       => valid_call.ret

\* C15: a process that reads the file of a key while others write it reads
\* either the complete content the file had or the complete text of one of
\* the values written, and once two concurrent writers have both finished the
\* file holds the complete text of the value of the one that finished last.
C15_WritesAreAtomic ==
  /\ procs[Reader].pc = "done"
       => procs[Reader].data
            \in {FullText(disk.was)} \cup {FullText(procs[w].value) : w \in Writers}
  /\ (\A w \in Writers : procs[w].pc = "done")
       => /\ Len(disk.log) = Cardinality(Writers)
          /\ disk.inodes[disk.target] = FullText(procs[disk.log[Len(disk.log)]].value)

\* the reader read the complete text of the value the first writer had just
\* committed while the second writer was half-way through its own write
C15_Witness ==
  /\ procs[Reader].pc = "done"
  /\ procs[Reader].data = FullText(procs["w1"].value)
  /\ procs["w2"].pc = "writing" /\ procs["w2"].written = 1
  /\ procs["w1"].value # procs["w2"].value

====
